---- MODULE Spec2Model ----
(***************************************************************************)
(* The interactive globe (Globe component) as a state machine.             *)
(*                                                                         *)
(* The component keeps React state (clickedCountry, the detail panel's     *)
(* fields, isDeviceMotionActive) and, per run of the globe effect, one     *)
(* closure of controller variables (hoveredCountryIdx, clickedCountryIdx,  *)
(* clickTimeout, ...).  Handlers are written as operators from a state     *)
(* record to a state record, so that a handler that calls other functions  *)
(* is the composition of their operators; an action commits the record     *)
(* its handler returns.                                                    *)
(*                                                                         *)
(* Time is counted in seconds: Tick lets one second pass for every pending *)
(* timer, and a timer that is due fires before the next second passes.     *)
(* A state update and the effect it triggers (cleanup of the previous run, *)
(* then the new run) are one step.                                         *)
(***************************************************************************)
EXTENDS Integers, Sequences, FiniteSets, TLC

(* ------------------------------ bounds -------------------------------- *)

\* number of country paths (svgPaths.length)
NumCountries == 2

\* selections (setClickedCountry with a country object) in one behaviour
MaxSelections == 2

\* runs of the globe effect in one behaviour (1 + re-initialisations)
MaxInstances == 2

\* the network answers the requests of the first MaxAnswered selections; the
\* requests of later selections stay pending
MaxAnswered == 1

\* times the camera is switched on in one behaviour
MaxCameraRuns == 3

\* the zoom animations in flight when the wheel is turned again
MaxZoomTweens == 2

(* ------------------------- program constants -------------------------- *)

\* the revert timer, in seconds
RevertDelay == 3

\* targetZoom, in tenths
ZoomDefault == 10
ZoomClicked == 15

(* ------------------------------ values -------------------------------- *)

Null == <<>>
Some(x) == <<x>>
NoIdx == -1

\* a property that is undefined in the topology
Undefined == "undefined"

PathNames == <<"Testland", "Arcadia", "Borduria", "Syldavia", "Ruritania">>
PathIds == <<"TL", "AR", "BO", "SY", "RU">>

\* The country paths built from the topology: one per feature, in order.
\* Features of the atlas may carry no id; the last path of the model has none.
svgPaths ==
    [i \in 0..(NumCountries - 1) |->
        [name |-> PathNames[i + 1],
         id |-> IF i = NumCountries - 1 THEN Undefined ELSE PathIds[i + 1]]]

\* x || ''
OrEmpty(x) == IF x = Undefined THEN "" ELSE x

(* --------------------------- picking buffer --------------------------- *)

\* a colour key whose blue byte is taken from i instead of i + 1
EncodeColourShiftBug(i) ==
    << ((i + 1) \div 65536) % 256, ((i + 1) \div 256) % 256, i % 256 >>

\* rgb((i + 1) >> 16 & 255, (i + 1) >> 8 & 255, (i + 1) & 255)
EncodeColour(i) ==
    << ((i + 1) \div 65536) % 256, ((i + 1) \div 256) % 256, (i + 1) % 256 >>

\* (pixel[0] << 16) | (pixel[1] << 8) | pixel[2], each component a byte
DecodeId(pixel) == pixel[1] * 65536 + pixel[2] * 256 + pixel[3]

Background == <<0, 0, 0>>

\* The colours found on the picking canvas: the background, one colour per
\* country, and anti-aliased boundary pixels whose colour is no country's.
EdgePixels == {EncodeColour(NumCountries)}
CanvasPixels ==
    {Background} \cup {EncodeColour(i) : i \in 0..(NumCountries - 1)} \cup EdgePixels

\* Where the pointer is: off the globe (the ray hits nothing), or on a point
\* of the stroke mesh whose uv falls on a pixel of the picking canvas.
PointerOff == [hit |-> FALSE, px |-> Background]
PointerOn(p) == [hit |-> TRUE, px |-> p]
PointerTargets == {PointerOff} \cup {PointerOn(p) : p \in CanvasPixels}

(* ------------------------------- state -------------------------------- *)

VARIABLES
    \* React state of the component
    clickedCountry,         \* Null or Some([name, id, gen]); gen: the object's identity
    countryName,
    isDeviceMotionActive,
    weatherData,            \* 0 (null) or the selection whose fetch produced it
    countryDetails,         \* 0 (null) or the selection whose fetch produced it
    aiSummary,              \* [text, of]
    groundingSources,       \* 0 (empty) or the selection whose fetch produced them
    isLoadingWeather,
    isLoadingSummary,
    componentMounted,
    \* the runs of the clickedCountry effect, one per selection
    selGen,                 \* number of selections made so far
    effects,                \* sequence of [isMounted, id, wx, outcome, coords, weatherReqs, ai]
    apiKey,                 \* NEXT_PUBLIC_GEMINI_API_KEY is configured
    \* closure of the live run of the globe effect
    instance,
    hoveredCountryIdx,
    clickedCountryIdx,
    clickTimeout,           \* Null or Some(timer id)
    isTouchScreen,
    isHoverable,
    targetZoom,
    pointer,
    autoRotate,             \* controls.autoRotate
    clickedMeshVisible,     \* globeClickedMesh.visible
    selectionMeshVisible,   \* globeSelectionOuterMesh.visible
    highlightCanvas,        \* the country drawn on the hover highlight canvas, or NoIdx
    clickCanvas,            \* the country drawn on the click canvas, or NoIdx
    hitTestDraws,           \* drawCountry calls on the highlight canvas by the last frame's hit test
    tweens,                 \* tweens in flight: [target, to, onComplete]
    \* the browser
    timers,                 \* pending timeouts: [id, inst, rem]
    staleClosures,          \* clickedCountryIdx and isDeviceMotionActive of torn-down runs
    listeners,              \* registered event listeners: [inst, target, type]
    tickerCallbacks,        \* instances whose render is on the gsap ticker
    renderers,              \* instances whose WebGL renderer is not disposed
    \* the geometry load
    isLoaded,
    topologyFetch,          \* "pending" or "done"
    unhandledRejections,    \* rejected promises that have no handler
    \* the orbit controls of the live run
    dragging,               \* between the controls' 'start' and 'end' events
    \* the textures of the live run
    mapTexture,             \* resolution of the map and stroke canvases: "none", "low", "hi"
    observers,              \* runs whose visibility observer is connected
    visibleReported,        \* runs whose observer has reported the container visible
    hiResPasses,            \* the runs of the high-resolution passes the observers started, in order
    hiResTimers,            \* runs whose 300 ms timer for the high-resolution pass is pending
    \* the CameraView component
    isCameraOn,
    cameraError,            \* error is set
    cameraRuns,             \* runs of its effect with the camera on: [request, cleaned, stream]
    videoSrc,               \* 0 (no srcObject) or the run whose stream the video shows
    cameraMounted,
    \* the region buttons
    selectedRegion

vars ==
    << clickedCountry, countryName, isDeviceMotionActive, weatherData, countryDetails,
       aiSummary, groundingSources, isLoadingWeather, isLoadingSummary, componentMounted,
       selGen, effects, apiKey, instance, hoveredCountryIdx, clickedCountryIdx,
       clickTimeout, isTouchScreen, isHoverable, targetZoom, pointer, autoRotate,
       clickedMeshVisible, selectionMeshVisible, highlightCanvas, clickCanvas,
       hitTestDraws, tweens, timers, staleClosures, listeners, tickerCallbacks, renderers,
       isLoaded, topologyFetch, unhandledRejections, dragging, mapTexture, observers,
       visibleReported, hiResPasses, hiResTimers, isCameraOn, cameraError, cameraRuns,
       videoSrc, cameraMounted, selectedRegion >>

\* the state as one record, for the handlers
S ==
    [clickedCountry |-> clickedCountry, countryName |-> countryName,
     isDeviceMotionActive |-> isDeviceMotionActive, weatherData |-> weatherData,
     countryDetails |-> countryDetails, aiSummary |-> aiSummary,
     groundingSources |-> groundingSources, isLoadingWeather |-> isLoadingWeather,
     isLoadingSummary |-> isLoadingSummary, componentMounted |-> componentMounted,
     selGen |-> selGen, effects |-> effects, apiKey |-> apiKey, instance |-> instance,
     hoveredCountryIdx |-> hoveredCountryIdx, clickedCountryIdx |-> clickedCountryIdx,
     clickTimeout |-> clickTimeout, isTouchScreen |-> isTouchScreen,
     isHoverable |-> isHoverable, targetZoom |-> targetZoom, pointer |-> pointer,
     autoRotate |-> autoRotate, clickedMeshVisible |-> clickedMeshVisible,
     selectionMeshVisible |-> selectionMeshVisible, highlightCanvas |-> highlightCanvas,
     clickCanvas |-> clickCanvas, hitTestDraws |-> hitTestDraws, tweens |-> tweens,
     timers |-> timers, staleClosures |-> staleClosures, listeners |-> listeners,
     tickerCallbacks |-> tickerCallbacks, renderers |-> renderers, isLoaded |-> isLoaded,
     topologyFetch |-> topologyFetch, unhandledRejections |-> unhandledRejections,
     dragging |-> dragging, mapTexture |-> mapTexture, observers |-> observers,
     visibleReported |-> visibleReported, hiResPasses |-> hiResPasses,
     hiResTimers |-> hiResTimers, isCameraOn |-> isCameraOn, cameraError |-> cameraError,
     cameraRuns |-> cameraRuns, videoSrc |-> videoSrc, cameraMounted |-> cameraMounted,
     selectedRegion |-> selectedRegion]

\* the next state is s (s is evaluated once)
Commit(s) ==
    \E r \in {s} :
        /\ clickedCountry' = r.clickedCountry
        /\ countryName' = r.countryName
        /\ isDeviceMotionActive' = r.isDeviceMotionActive
        /\ weatherData' = r.weatherData
        /\ countryDetails' = r.countryDetails
        /\ aiSummary' = r.aiSummary
        /\ groundingSources' = r.groundingSources
        /\ isLoadingWeather' = r.isLoadingWeather
        /\ isLoadingSummary' = r.isLoadingSummary
        /\ componentMounted' = r.componentMounted
        /\ selGen' = r.selGen
        /\ effects' = r.effects
        /\ apiKey' = r.apiKey
        /\ instance' = r.instance
        /\ hoveredCountryIdx' = r.hoveredCountryIdx
        /\ clickedCountryIdx' = r.clickedCountryIdx
        /\ clickTimeout' = r.clickTimeout
        /\ isTouchScreen' = r.isTouchScreen
        /\ isHoverable' = r.isHoverable
        /\ targetZoom' = r.targetZoom
        /\ pointer' = r.pointer
        /\ autoRotate' = r.autoRotate
        /\ clickedMeshVisible' = r.clickedMeshVisible
        /\ selectionMeshVisible' = r.selectionMeshVisible
        /\ highlightCanvas' = r.highlightCanvas
        /\ clickCanvas' = r.clickCanvas
        /\ hitTestDraws' = r.hitTestDraws
        /\ tweens' = r.tweens
        /\ timers' = r.timers
        /\ staleClosures' = r.staleClosures
        /\ listeners' = r.listeners
        /\ tickerCallbacks' = r.tickerCallbacks
        /\ renderers' = r.renderers
        /\ isLoaded' = r.isLoaded
        /\ topologyFetch' = r.topologyFetch
        /\ unhandledRejections' = r.unhandledRejections
        /\ dragging' = r.dragging
        /\ mapTexture' = r.mapTexture
        /\ observers' = r.observers
        /\ visibleReported' = r.visibleReported
        /\ hiResPasses' = r.hiResPasses
        /\ hiResTimers' = r.hiResTimers
        /\ isCameraOn' = r.isCameraOn
        /\ cameraError' = r.cameraError
        /\ cameraRuns' = r.cameraRuns
        /\ videoSrc' = r.videoSrc
        /\ cameraMounted' = r.cameraMounted
        /\ selectedRegion' = r.selectedRegion

\* the state is s
StateIs(s) ==
    /\ clickedCountry = s.clickedCountry
    /\ countryName = s.countryName
    /\ isDeviceMotionActive = s.isDeviceMotionActive
    /\ weatherData = s.weatherData
    /\ countryDetails = s.countryDetails
    /\ aiSummary = s.aiSummary
    /\ groundingSources = s.groundingSources
    /\ isLoadingWeather = s.isLoadingWeather
    /\ isLoadingSummary = s.isLoadingSummary
    /\ componentMounted = s.componentMounted
    /\ selGen = s.selGen
    /\ effects = s.effects
    /\ apiKey = s.apiKey
    /\ instance = s.instance
    /\ hoveredCountryIdx = s.hoveredCountryIdx
    /\ clickedCountryIdx = s.clickedCountryIdx
    /\ clickTimeout = s.clickTimeout
    /\ isTouchScreen = s.isTouchScreen
    /\ isHoverable = s.isHoverable
    /\ targetZoom = s.targetZoom
    /\ pointer = s.pointer
    /\ autoRotate = s.autoRotate
    /\ clickedMeshVisible = s.clickedMeshVisible
    /\ selectionMeshVisible = s.selectionMeshVisible
    /\ highlightCanvas = s.highlightCanvas
    /\ clickCanvas = s.clickCanvas
    /\ hitTestDraws = s.hitTestDraws
    /\ tweens = s.tweens
    /\ timers = s.timers
    /\ staleClosures = s.staleClosures
    /\ listeners = s.listeners
    /\ tickerCallbacks = s.tickerCallbacks
    /\ renderers = s.renderers
    /\ isLoaded = s.isLoaded
    /\ topologyFetch = s.topologyFetch
    /\ unhandledRejections = s.unhandledRejections
    /\ dragging = s.dragging
    /\ mapTexture = s.mapTexture
    /\ observers = s.observers
    /\ visibleReported = s.visibleReported
    /\ hiResPasses = s.hiResPasses
    /\ hiResTimers = s.hiResTimers
    /\ isCameraOn = s.isCameraOn
    /\ cameraError = s.cameraError
    /\ cameraRuns = s.cameraRuns
    /\ videoSrc = s.videoSrc
    /\ cameraMounted = s.cameraMounted
    /\ selectedRegion = s.selectedRegion

(* ------------------------ the detail panel effect --------------------- *)

NoSummary == [text |-> "null", of |-> 0]

\* fetchSummary up to its first await
FetchSummaryStart(s, g) ==
    IF ~s.apiKey
    THEN [s EXCEPT !.effects[g].ai = "nokey",
                   !.aiSummary = [text |-> "Gemini API key not configured.", of |-> g],
                   !.isLoadingSummary = FALSE]
    ELSE [s EXCEPT !.effects[g].ai = "pending"]

\* fetchWeather up to its first await: the lookup by full name is requested
FetchWeatherStart(s, g) == [s EXCEPT !.effects[g].wx = "name_full"]

\* The cleanup returned by the run for selection g: isMounted = false.
\* The run for a null clickedCountry returns no cleanup.
EffectCleanup(s, prev) ==
    IF prev = Null THEN s ELSE [s EXCEPT !.effects[prev[1].gen].isMounted = FALSE]

\* The body of the effect on [clickedCountry], run with the new value.
ClickedCountryEffect(s) ==
    IF s.clickedCountry = Null
    THEN [s EXCEPT !.weatherData = 0, !.countryDetails = 0,
                   !.aiSummary = NoSummary, !.groundingSources = 0]
    ELSE LET g == s.clickedCountry[1].gen
             s1 == [s EXCEPT !.effects = Append(@,
                                  [isMounted |-> TRUE, id |-> s.clickedCountry[1].id,
                                   wx |-> "idle", outcome |-> "pending",
                                   coords |-> "none", weatherReqs |-> 0,
                                   ai |-> "idle"]),
                             !.isLoadingWeather = TRUE, !.isLoadingSummary = TRUE,
                             !.weatherData = 0, !.countryDetails = 0,
                             !.aiSummary = NoSummary, !.groundingSources = 0]
         IN FetchSummaryStart(FetchWeatherStart(s1, g), g)

\* setClickedCountry(v), v = Null or Some([name, id]): the state changes unless
\* both are null (a country object is always a new object), the previous run's
\* cleanup runs, then the effect runs with the new value.  A state update of an
\* unmounted component is dropped.
SetClickedCountry(s, v) ==
    IF ~s.componentMounted THEN s
    ELSE IF v = Null /\ s.clickedCountry = Null THEN s
    ELSE LET g == IF v = Null THEN s.selGen ELSE s.selGen + 1
             cc == IF v = Null THEN Null
                   ELSE Some([name |-> v[1].name, id |-> v[1].id, gen |-> g])
             s1 == EffectCleanup(s, s.clickedCountry)
         IN ClickedCountryEffect([s1 EXCEPT !.clickedCountry = cc, !.selGen = g])

(* ------------------------------ tweens -------------------------------- *)

Tween(s, target, to, cb) ==
    [inst |-> s.instance, target |-> target, to |-> to, onComplete |-> cb]

\* gsap.to(target, {...})
GsapTo(s, target, to, cb) == [s EXCEPT !.tweens = @ \cup {Tween(s, target, to, cb)}]

\* gsap.killTweensOf(target)
KillTweensOf(s, target) ==
    [s EXCEPT !.tweens = {t \in @ : ~(t.inst = s.instance /\ t.target = target)}]

(* ------------------------- click and revert --------------------------- *)

\* clearTimeout(handle)
ClearTimeout(s, handle) == [s EXCEPT !.timers = {t \in @ : t.id # handle}]

\* clickTimeout = setTimeout(revertClick, 3000); the handle is a fresh id
SetClickTimeout(s) ==
    [s EXCEPT !.timers = @ \cup {[id |-> s.selGen, inst |-> s.instance, rem |-> RevertDelay]},
              !.clickTimeout = Some(s.selGen)]

\* a click handler without the early return
AlreadyClickedNever(s, idx) == FALSE

\* if (clickedCountryIdx === idx) return;
AlreadyClicked(s, idx) == s.clickedCountryIdx = idx

\* if (clickTimeout) clearTimeout(clickTimeout);
CancelClickTimeout(s) ==
    IF s.clickTimeout # Null THEN ClearTimeout(s, s.clickTimeout[1]) ELSE s

\* a selection that always names the first path
CountryOfFirstPath(idx) ==
    [name |-> OrEmpty(svgPaths[0].name), id |-> OrEmpty(svgPaths[0].id)]

\* { name: svgPaths[idx].name || '', id: svgPaths[idx].id || '' }
CountryOf(idx) ==
    [name |-> OrEmpty(svgPaths[idx].name), id |-> OrEmpty(svgPaths[idx].id)]

\* a click that draws the country but leaves the ring's visibility as it is
ShowClickedDrawOnly(s, idx) == [s EXCEPT !.clickCanvas = idx]

\* drawCountry(clickCanvas, ...); globeClickedMesh.visible = true
ShowClicked(s, idx) == [s EXCEPT !.clickCanvas = idx, !.clickedMeshVisible = TRUE]

HandleCountryClick(s, idx) ==
    IF AlreadyClicked(s, idx) THEN s
    ELSE LET s1 == [s EXCEPT !.clickedCountryIdx = idx]
             s2 == SetClickedCountry(s1, Some(CountryOf(idx)))
             s3 == ShowClicked(s2, idx)
             s4 == GsapTo(KillTweensOf(s3, "globeClickedMesh.scale"),
                          "globeClickedMesh.scale", 102, "none")
             s5 == GsapTo([s4 EXCEPT !.targetZoom = ZoomClicked],
                          "camera.zoom", ZoomClicked, "none")
             s6 == IF ~s5.isDeviceMotionActive THEN [s5 EXCEPT !.autoRotate = FALSE] ELSE s5
         IN SetClickTimeout(CancelClickTimeout(s6))

\* targetZoom = 1
RevertZoom(s) == [s EXCEPT !.targetZoom = ZoomDefault]

RevertClick(s) ==
    IF s.clickedCountryIdx = NoIdx THEN s
    ELSE LET s1 == [s EXCEPT !.clickedCountryIdx = NoIdx]
             s2 == SetClickedCountry(s1, Null)
             s3 == GsapTo(s2, "globeClickedMesh.scale", 100, "hideClickedMesh")
             s4 == RevertZoom(s3)
             s5 == GsapTo(s4, "camera.zoom", s4.targetZoom, "none")
         IN IF ~s5.isDeviceMotionActive THEN [s5 EXCEPT !.autoRotate = TRUE] ELSE s5

\* revertClick of a torn-down run, called by its timer: it reads and writes the
\* run's own clickedCountryIdx, and sets the component's clickedCountry.  Its
\* tweens and autoRotate act on the objects of the torn-down scene.
StaleRevertClick(s, c) ==
    IF c.clickedCountryIdx = NoIdx THEN s
    ELSE LET s1 == [s EXCEPT !.staleClosures =
                        (@ \ {c}) \cup {[c EXCEPT !.clickedCountryIdx = NoIdx]}]
         IN SetClickedCountry(s1, Null)

(* ------------------------- hit test and hover ------------------------- *)

\* index >= 0 && index < svgPaths.length
ValidIndex(index) == index >= 0 /\ index < NumCountries

\* the index updateMap decodes from the pixel under the uv point
PixelIndex(pixel) == DecodeId(pixel) - 1

\* a hit test that redraws whether or not the index changed
HoverChangedAlways(s, index) == TRUE

\* else if (index !== hoveredCountryIdx)
HoverChanged(s, index) == index # s.hoveredCountryIdx

\* the branch of updateMap that moves the hover to another country
HoverCountry(s, index) ==
    LET s1 == [s EXCEPT !.hoveredCountryIdx = index, !.selectionMeshVisible = TRUE,
                        \* drawCountry(highlightCanvas, ...)
                        !.highlightCanvas = index, !.hitTestDraws = @ + 1,
                        !.countryName = OrEmpty(svgPaths[index].name)]
    IN GsapTo(KillTweensOf(s1, "globeSelectionOuterMesh.scale"),
              "globeSelectionOuterMesh.scale", 1015, "none")

\* updateMap(uv, isClick): the state it leaves and the value it returns
UpdateMap(s, pixel, isClick) ==
    LET index == PixelIndex(pixel) IN
    IF ValidIndex(index)
    THEN IF isClick
         THEN [state |-> HandleCountryClick(s, index), ret |-> TRUE]
         ELSE IF HoverChanged(s, index)
              THEN [state |-> HoverCountry(s, index), ret |-> TRUE]
              ELSE [state |-> s, ret |-> TRUE]
    ELSE [state |-> s, ret |-> FALSE]

ClearHover(s) ==
    IF s.hoveredCountryIdx # NoIdx
    THEN GsapTo([s EXCEPT !.hoveredCountryIdx = NoIdx, !.countryName = ""],
                "globeSelectionOuterMesh.scale", 1000, "hideSelectionMesh")
    ELSE s

\* render(): the ticker's callback, once per frame
RenderFrame(s) ==
    LET s0 == [s EXCEPT !.hitTestDraws = 0]
        s1 == IF s0.isHoverable
              THEN IF s0.pointer.hit
                   THEN LET r == UpdateMap(s0, s0.pointer.px, FALSE)
                        IN IF ~r.ret THEN ClearHover(r.state) ELSE r.state
                   ELSE ClearHover(s0)
              ELSE s0
    IN IF s1.isTouchScreen /\ s1.isHoverable THEN [s1 EXCEPT !.isHoverable = FALSE] ELSE s1

\* handleClick(e): e lands on target p
HandleClickAt(s, p) ==
    LET s0 == [s EXCEPT !.pointer = p]
    IN IF p.hit
       THEN LET r == UpdateMap(s0, p.px, TRUE)
            IN IF ~r.ret THEN RevertClick(r.state) ELSE r.state
       ELSE RevertClick(s0)

\* handleMouseMove(e)
HandleMouseMoveTo(s, p) == [s EXCEPT !.pointer = p]

\* handleTouchStart()
HandleTouchStartOn(s) == [s EXCEPT !.isTouchScreen = TRUE]

(* --------------------------- region rotation -------------------------- *)

\* the region buttons
Regions == {"Global", "Europe"}

\* a rotation that is started in device-motion mode too
RotationIgnoredNever(s) == FALSE

\* if (isDeviceMotionActive) return;
RotationIgnored(s) == s.isDeviceMotionActive

\* window.rotateToRegion(rotX, rotY) of the live run
RotateToRegion(s, region) ==
    IF RotationIgnored(s) THEN s
    ELSE GsapTo([s EXCEPT !.autoRotate = FALSE],
                "globeGroup.rotation", region, "resumeAutoRotate")

\* onClick of a region button
RegionClick(s, region) ==
    LET s1 == [s EXCEPT !.selectedRegion = region]
    IN IF s1.instance > 0 THEN RotateToRegion(s1, region) ELSE s1

\* a completion that resumes auto-rotate also while a country is clicked
ResumeAutoRotateWhileClicked(s) ==
    IF ~s.isDeviceMotionActive THEN [s EXCEPT !.autoRotate = TRUE] ELSE s

\* onComplete of the rotation's tween
ResumeAutoRotate(s) ==
    IF ~s.isDeviceMotionActive /\ s.clickedCountryIdx = NoIdx
    THEN [s EXCEPT !.autoRotate = TRUE]
    ELSE s

(* ------------------------------- wheel -------------------------------- *)

\* the zoom's range, in tenths
ZoomMin == 8
ZoomMax == 30
ZoomStep == 3

\* Math.max(0.8, Math.min(3, z))
ClampZoom(z) ==
    LET m == IF z < ZoomMax THEN z ELSE ZoomMax
    IN IF m > ZoomMin THEN m ELSE ZoomMin

\* handleWheel(e): down is e.deltaY > 0; the listener of the component only
HandleWheelBy(s, down) ==
    LET z == ClampZoom(s.targetZoom + (IF down THEN 0 - ZoomStep ELSE ZoomStep))
    IN GsapTo([s EXCEPT !.targetZoom = z], "camera.zoom", z, "none")

(* -------------------------------- drag -------------------------------- *)

\* a 'start' listener that leaves hover hit-testing as it is
OnControlsStartHoverKept(s) ==
    GsapTo([s EXCEPT !.dragging = TRUE, !.pointer = PointerOff],
           "globeGroup.scale", 90, "none")

\* controls' 'start' listener: OrbitControls leaves its idle state (it turns
\* the globe by itself only while idle; controls.autoRotate is not written)
OnControlsStart(s) ==
    GsapTo([s EXCEPT !.dragging = TRUE, !.isHoverable = FALSE, !.pointer = PointerOff],
           "globeGroup.scale", 90, "none")

\* controls' 'end' listener
OnControlsEnd(s) ==
    GsapTo([s EXCEPT !.dragging = FALSE], "globeGroup.scale", 100, "enableHover")

\* a tween of the live run reaches its end: it leaves the set and its
\* onComplete runs
CompleteTween(s, t) ==
    LET s1 == [s EXCEPT !.tweens = @ \ {t}] IN
    IF t.inst # s.instance THEN s1
    ELSE IF t.onComplete = "hideClickedMesh"
    THEN IF s1.clickedCountryIdx = NoIdx THEN [s1 EXCEPT !.clickedMeshVisible = FALSE] ELSE s1
    ELSE IF t.onComplete = "hideSelectionMesh"
    THEN IF s1.hoveredCountryIdx = NoIdx
         THEN [s1 EXCEPT !.selectionMeshVisible = FALSE, !.highlightCanvas = NoIdx]
         ELSE s1
    ELSE IF t.onComplete = "resumeAutoRotate"
    THEN ResumeAutoRotate(s1)
    ELSE IF t.onComplete = "enableHover"
    THEN [s1 EXCEPT !.isHoverable = TRUE]
    ELSE s1

(* ---------------------- the fetches of a selection -------------------- *)

\* What a country lookup can come to: a response with capitalInfo.latlng, one
\* with latlng only, a response that is not ok, or a failure (the request is
\* rejected, the body cannot be read, or the country has no coordinates).
LookupOutcomes == {"ok_capital", "ok_latlng", "not_ok", "fail"}
\* the weather request: a response that is ok, or one that is not (or a rejection)
WeatherOutcomes == {"ok", "fail"}
\* the AI call: text with grounding chunks, text alone, no text, or a failure
SummaryOutcomes == {"text_sources", "text", "empty", "fail"}

\* a catch block that leaves the loading flag as it is
FetchWeatherCatchKeepsLoading(s, g) ==
    [s EXCEPT !.effects[g].wx = "done", !.effects[g].outcome = "error"]

\* the catch block of fetchWeather
FetchWeatherCatch(s, g) ==
    LET s1 == [s EXCEPT !.effects[g].wx = "done", !.effects[g].outcome = "error"]
    IN IF s1.effects[g].isMounted THEN [s1 EXCEPT !.isLoadingWeather = FALSE] ELSE s1

\* the weather request, once the country has coordinates
RequestWeather(s, g, coords) ==
    [s EXCEPT !.effects[g].wx = "weather", !.effects[g].coords = coords,
              !.effects[g].weatherReqs = @ + 1]

RequestCountry(s, g, stage) == [s EXCEPT !.effects[g].wx = stage]

\* fetchWeather resumes after a country lookup
CountryLookupDone(s, g, outcome) ==
    LET e == s.effects[g] IN
    IF outcome = "fail" THEN FetchWeatherCatch(s, g)   \* also 'No coordinates found'
    ELSE IF outcome = "not_ok"
    THEN IF e.wx = "name_full" /\ e.id # ""
         THEN RequestCountry(s, g, "alpha")
         ELSE IF e.wx \in {"name_full", "alpha"}
              THEN RequestCountry(s, g, "name")
              ELSE FetchWeatherCatch(s, g)           \* throw 'Country not found'
    ELSE IF outcome = "ok_capital" THEN RequestWeather(s, g, "capitalInfo.latlng")
    ELSE RequestWeather(s, g, "latlng")

\* results applied without the isMounted test
ApplyWeatherUnguarded(s, g) ==
    [s EXCEPT !.countryDetails = g, !.weatherData = g, !.isLoadingWeather = FALSE]

\* if (isMounted) { setCountryDetails; setWeatherData; setIsLoadingWeather(false) }
ApplyWeather(s, g) ==
    IF s.effects[g].isMounted
    THEN [s EXCEPT !.countryDetails = g, !.weatherData = g, !.isLoadingWeather = FALSE]
    ELSE s

\* fetchWeather resumes after the weather request
WeatherDone(s, g, outcome) ==
    IF outcome = "ok"
    THEN ApplyWeather([s EXCEPT !.effects[g].wx = "done", !.effects[g].outcome = "ok"], g)
    ELSE FetchWeatherCatch(s, g)                     \* throw 'Weather not found'

\* fetchSummary resumes after generateContent
SummaryDone(s, g, outcome) ==
    LET ok == outcome # "fail"
        s1 == [s EXCEPT !.effects[g].ai = IF ok THEN "ok" ELSE "error"]
    IN IF ~s1.effects[g].isMounted THEN s1
       ELSE IF ok
       THEN [s1 EXCEPT !.aiSummary =
                            IF outcome = "empty"
                            THEN [text |-> "No summary available.", of |-> g]
                            ELSE [text |-> "summary", of |-> g],
                       !.groundingSources = IF outcome = "text_sources" THEN g ELSE @,
                       !.isLoadingSummary = FALSE]
       ELSE [s1 EXCEPT !.aiSummary = [text |-> "Failed to load summary.", of |-> g],
                       !.isLoadingSummary = FALSE]

\* A run whose cleanup has run and whose two async functions have returned has
\* nothing left to do: its closure is garbage, and its record is forgotten.
Settled ==
    [isMounted |-> FALSE, id |-> "", wx |-> "done", outcome |-> "settled",
     coords |-> "none", weatherReqs |-> 0, ai |-> "settled"]

Forget(s) ==
    [s EXCEPT !.effects =
        [g \in DOMAIN @ |->
            IF ~@[g].isMounted /\ @[g].wx = "done" /\ @[g].ai # "pending"
            THEN Settled
            ELSE IF @[g].wx # "name_full"      \* the id is read after that lookup only
            THEN [@[g] EXCEPT !.id = ""]
            ELSE @[g]]]

(* ------------------- the globe effect: run and cleanup ---------------- *)

Listener(k, by, target, type) == [inst |-> k, by |-> by, target |-> target, type |-> type]

\* the listeners the effect registers itself
GlobeListeners(k, deviceMotion) ==
    {Listener(k, "globe", "container", "touchstart"),
     Listener(k, "globe", "container", "mousemove"),
     Listener(k, "globe", "container", "click"),
     Listener(k, "globe", "canvas", "wheel"),
     Listener(k, "globe", "window", "resize")}
    \cup (IF deviceMotion THEN {Listener(k, "globe", "window", "deviceorientation")} ELSE {})

\* new OrbitControls(camera, canvasEl) connects to the canvas
ControlsListeners(k) ==
    {Listener(k, "controls", "canvas", "pointerdown"),
     Listener(k, "controls", "canvas", "pointercancel"),
     Listener(k, "controls", "canvas", "contextmenu"),
     Listener(k, "controls", "canvas", "wheel")}

\* the body of the effect on [isLoaded, isDeviceMotionActive], as run k
InitGlobe(s, k) ==
    [s EXCEPT !.instance = k,
              !.hoveredCountryIdx = NoIdx, !.clickedCountryIdx = NoIdx,
              !.clickTimeout = Null, !.isTouchScreen = FALSE, !.isHoverable = TRUE,
              !.targetZoom = ZoomDefault, !.pointer = PointerOff,
              !.autoRotate = ~s.isDeviceMotionActive,
              !.clickedMeshVisible = FALSE, !.selectionMeshVisible = TRUE,
              !.highlightCanvas = NoIdx, !.clickCanvas = NoIdx, !.hitTestDraws = 0,
              !.listeners = @ \cup GlobeListeners(k, s.isDeviceMotionActive)
                              \cup ControlsListeners(k),
              !.tickerCallbacks = @ \cup {k},
              !.renderers = @ \cup {k},
              !.dragging = FALSE,
              \* prepareInitialTextures(), then observer.observe(containerEl)
              !.mapTexture = "low",
              !.observers = @ \cup {k}]

\* the listeners the cleanup removes
CleanupRemoves(k) == GlobeListeners(k, TRUE)

\* the cleanup of run k; the run's closure lives on in its timer and tweens
CleanupGlobe(s) ==
    LET k == s.instance IN
    [s EXCEPT !.listeners = @ \ CleanupRemoves(k),
              !.tickerCallbacks = @ \ {k},
              !.renderers = @ \ {k},
              !.staleClosures = @ \cup {[inst |-> k,
                                         clickedCountryIdx |-> s.clickedCountryIdx,
                                         hoveredCountryIdx |-> s.hoveredCountryIdx,
                                         isDeviceMotionActive |-> s.isDeviceMotionActive]},
              !.instance = 0]

\* isDeviceMotionActive changes: the cleanup of the live run, then a new run
ReInitGlobe(s, active) ==
    LET k == s.instance
        s1 == CleanupGlobe(s)
    IN InitGlobe([s1 EXCEPT !.isDeviceMotionActive = active], k + 1)

\* the component unmounts: the cleanups of both effects run
UnmountComponent(s) ==
    LET s1 == CleanupGlobe(s)
        s2 == EffectCleanup(s1, s1.clickedCountry)
    IN [s2 EXCEPT !.componentMounted = FALSE]

(* ------------------------ the texture resolutions --------------------- *)

\* an observer that stays connected after its first visible report
AfterVisibleReportConnected(s, k) == s.observers

\* observer.disconnect() in the observer's callback
AfterVisibleReport(s, k) == s.observers \ {k}

\* the callback of run k's IntersectionObserver
ObserverCallback(s, k, isIntersecting) ==
    IF isIntersecting
    THEN [s EXCEPT !.hiResTimers = @ \cup {k},
                   !.visibleReported = @ \cup {k},
                   !.observers = AfterVisibleReport(s, k)]
    ELSE s

\* the hovered index in the closure of run k
HoveredIn(s, k) ==
    IF k = s.instance THEN s.hoveredCountryIdx
    ELSE LET c == CHOOSE c \in s.staleClosures : c.inst = k IN c.hoveredCountryIdx

\* prepareHiResTextures() in the closure of run k: the map and the strokes
\* of that run are redrawn, and setCountryName is called
PrepareHiResTextures(s, k) ==
    LET h == HoveredIn(s, k)
        s1 == IF k = s.instance THEN [s EXCEPT !.mapTexture = "hi"] ELSE s
    IN IF s1.componentMounted
       THEN [s1 EXCEPT !.countryName = IF h # NoIdx THEN OrEmpty(svgPaths[h].name) ELSE ""]
       ELSE s1

\* the 300 ms timer the observer of run k set fires
HiResTimeout(s, k) ==
    PrepareHiResTextures([s EXCEPT !.hiResTimers = @ \ {k}, !.hiResPasses = Append(@, k)], k)

(* --------------------------- the geometry load ------------------------ *)

\* fetch(topology).then(res => res.json()).then(topology => ...): the paths are
\* set, isLoaded becomes true, and the globe effect runs for the first time
TopologyLoaded(s) ==
    IF ~s.componentMounted THEN [s EXCEPT !.topologyFetch = "done"]
    ELSE InitGlobe([s EXCEPT !.topologyFetch = "done", !.isLoaded = TRUE], 1)

\* the fetch is rejected, or the body is no JSON: the chain has no catch, the
\* rejection has no handler, and isLoaded stays false
TopologyFailed(s) ==
    [s EXCEPT !.topologyFetch = "done", !.unhandledRejections = @ \cup {"topology"}]

(* ------------------------------ the camera --------------------------- *)

\* what getUserMedia can come to
MediaOutcomes == {"granted", "denied"}

\* the effect on [isCameraOn] runs with the camera on: `stream` is null and
\* the request is pending
NewCameraRun == [request |-> "pending", cleaned |-> FALSE, stream |-> "none"]

\* the cleanup of run r of the camera effect: if (stream) its tracks are stopped
CameraCleanup(s, r) ==
    [s EXCEPT !.cameraRuns[r].cleaned = TRUE,
              !.cameraRuns[r].stream = IF @ = "running" THEN "stopped" ELSE @]

\* the cleanup of the run that is current, if the camera is on
CurrentCameraCleanup(s) ==
    IF s.isCameraOn /\ Len(s.cameraRuns) > 0 /\ ~s.cameraRuns[Len(s.cameraRuns)].cleaned
    THEN CameraCleanup(s, Len(s.cameraRuns))
    ELSE s

\* setIsCameraOn(on) and the render and effect it leads to: the <video> is
\* there only while the camera is on, so videoRef.current is null when the
\* effect runs with the camera off and its else-branch stops nothing
SetIsCameraOn(s, on) ==
    IF ~s.cameraMounted \/ on = s.isCameraOn THEN s
    ELSE LET s1 == CurrentCameraCleanup(s)
             s2 == [s1 EXCEPT !.isCameraOn = on, !.videoSrc = 0]
         IN IF on THEN [s2 EXCEPT !.cameraRuns = Append(@, NewCameraRun)] ELSE s2

\* the await of run r ends: the stream is assigned to the run's `stream`, also
\* after the run's cleanup, and shown by the <video> that is there now; or the
\* catch block runs
GetUserMediaDone(s, r, o) ==
    IF o = "granted"
    THEN LET s1 == [s EXCEPT !.cameraRuns[r].request = "granted",
                             !.cameraRuns[r].stream = "running"]
             s2 == IF s1.cameraMounted /\ s1.isCameraOn THEN [s1 EXCEPT !.videoSrc = r] ELSE s1
         IN IF s2.cameraMounted THEN [s2 EXCEPT !.cameraError = FALSE] ELSE s2
    ELSE LET s1 == [s EXCEPT !.cameraRuns[r].request = "denied"]
         IN IF s1.cameraMounted
            THEN SetIsCameraOn([s1 EXCEPT !.cameraError = TRUE], FALSE)
            ELSE s1

\* CameraView unmounts
CameraUnmounted(s) ==
    LET s1 == CurrentCameraCleanup(s)
    IN [s1 EXCEPT !.cameraMounted = FALSE, !.videoSrc = 0]

(* ------------------------------ actions ------------------------------- *)

TopologyResolve ==
    /\ topologyFetch = "pending"
    /\ \E ok \in BOOLEAN : Commit(IF ok THEN TopologyLoaded(S) ELSE TopologyFailed(S))


Live == componentMounted /\ instance > 0

\* whether a click on p makes a selection
Selects(p) ==
    /\ p.hit
    /\ ValidIndex(PixelIndex(p.px))
    /\ ~AlreadyClicked(S, PixelIndex(p.px))

HandleClick ==
    \E p \in PointerTargets :
        /\ Live
        /\ Selects(p) => selGen < MaxSelections
        /\ Commit(Forget(HandleClickAt(S, p)))

HandleMouseMove ==
    \E p \in PointerTargets :
        /\ Live
        /\ p # pointer
        /\ Commit(HandleMouseMoveTo(S, p))

HandleTouchStart ==
    /\ Live
    /\ ~isTouchScreen
    /\ Commit(HandleTouchStartOn(S))

Render ==
    /\ instance \in tickerCallbacks
    /\ Commit(RenderFrame(S))

TweenComplete ==
    \E t \in tweens : Commit(CompleteTween(S, t))

\* a tween of the hover ring reaches its end
HoverTweenComplete ==
    \E t \in tweens :
        /\ t.target = "globeSelectionOuterMesh.scale"
        /\ Commit(CompleteTween(S, t))

\* one second passes
Tick ==
    /\ timers # {}
    /\ \A t \in timers : t.rem > 0
    /\ timers' = {[t EXCEPT !.rem = @ - 1] : t \in timers}
    /\ UNCHANGED << clickedCountry, countryName, isDeviceMotionActive, weatherData,
                    countryDetails, aiSummary, groundingSources, isLoadingWeather,
                    isLoadingSummary, componentMounted, selGen, effects, apiKey, instance,
                    hoveredCountryIdx, clickedCountryIdx, clickTimeout, isTouchScreen,
                    isHoverable, targetZoom, pointer, autoRotate, clickedMeshVisible,
                    selectionMeshVisible, highlightCanvas, clickCanvas, hitTestDraws,
                    tweens, staleClosures, listeners, tickerCallbacks, renderers, isLoaded,
                    topologyFetch, unhandledRejections, dragging, mapTexture, observers,
                    visibleReported, hiResPasses, hiResTimers, isCameraOn, cameraError,
                    cameraRuns, videoSrc, cameraMounted, selectedRegion >>

\* the revert timer of the live run fires
TimerFire ==
    \E t \in timers :
        /\ t.rem = 0
        /\ t.inst = instance
        /\ Commit(Forget(RevertClick([S EXCEPT !.timers = @ \ {t}])))

\* the revert timer of a torn-down run fires
StaleTimerFire ==
    \E t \in timers :
        /\ t.rem = 0
        /\ t.inst # instance
        /\ \E c \in staleClosures :
              /\ c.inst = t.inst
              /\ Commit(Forget(StaleRevertClick([S EXCEPT !.timers = @ \ {t}], c)))

\* requestDeviceOrientation, permission granted where it is asked for
ToggleDeviceMotion ==
    /\ Live
    /\ instance < MaxInstances
    /\ Commit(ReInitGlobe(S, ~isDeviceMotionActive))

\* the camera button is clicked
ToggleCamera ==
    /\ cameraMounted
    /\ ~isCameraOn => Len(cameraRuns) < MaxCameraRuns
    /\ Commit(SetIsCameraOn(S, ~isCameraOn))

\* a getUserMedia request is answered
GetUserMediaResolve ==
    \E r \in 1..Len(cameraRuns), o \in MediaOutcomes :
        /\ cameraRuns[r].request = "pending"
        /\ Commit(GetUserMediaDone(S, r, o))

CameraUnmount ==
    /\ cameraMounted
    /\ Commit(CameraUnmounted(S))

\* the observer of a run reports: the container is in the viewport or not
VisibleReport ==
    \E k \in observers, isIntersecting \in BOOLEAN :
        /\ isIntersecting => componentMounted
        /\ Commit(ObserverCallback(S, k, isIntersecting))

\* the timer of a high-resolution pass fires
HiResTimerFire ==
    \E k \in hiResTimers : Commit(HiResTimeout(S, k))

\* the stroke or the default colour is changed in the GUI of the running globe
GuiColourChange ==
    /\ Live
    /\ Commit(PrepareHiResTextures(S, instance))

\* the zoom tweens of the running globe that are in flight
ZoomTweens == {t \in tweens : t.inst = instance /\ t.target = "camera.zoom"}

\* the wheel is turned over the canvas, a few times within one animation
HandleWheel ==
    \E down \in BOOLEAN :
        /\ Live
        /\ Cardinality(ZoomTweens) < MaxZoomTweens
        /\ Commit(HandleWheelBy(S, down))

\* the pointer goes down on the canvas: OrbitControls dispatches 'start'
DragStart ==
    /\ Live
    /\ ~dragging
    /\ Commit(OnControlsStart(S))

\* the pointer is released: OrbitControls dispatches 'end'
DragEnd ==
    /\ Live
    /\ dragging
    /\ Commit(OnControlsEnd(S))

\* a region button is clicked
RotateRegion ==
    \E region \in Regions :
        /\ Live
        /\ Commit(RegionClick(S, region))

\* the tween of a region rotation reaches its end
RotationComplete ==
    \E t \in tweens :
        /\ t.target = "globeGroup.rotation"
        /\ Commit(CompleteTween(S, t))

Unmount ==
    /\ Live
    /\ Commit(Forget(UnmountComponent(S)))

CountryLookupResolve ==
    \E g \in 1..Len(effects), o \in LookupOutcomes :
        /\ g <= MaxAnswered
        /\ effects[g].wx \in {"name_full", "alpha", "name"}
        /\ Commit(Forget(CountryLookupDone(S, g, o)))

WeatherResolve ==
    \E g \in 1..Len(effects), o \in WeatherOutcomes :
        /\ g <= MaxAnswered
        /\ effects[g].wx = "weather"
        /\ Commit(Forget(WeatherDone(S, g, o)))

SummaryResolve ==
    \E g \in 1..Len(effects), o \in SummaryOutcomes :
        /\ g <= MaxAnswered
        /\ effects[g].ai = "pending"
        /\ Commit(Forget(SummaryDone(S, g, o)))

(* --------------------------- specifications --------------------------- *)

\* the component before the globe effect has run
BaseState(key) ==
    [clickedCountry |-> Null, countryName |-> "", isDeviceMotionActive |-> FALSE,
     weatherData |-> 0, countryDetails |-> 0, aiSummary |-> NoSummary,
     groundingSources |-> 0, isLoadingWeather |-> FALSE, isLoadingSummary |-> FALSE,
     componentMounted |-> TRUE, selGen |-> 0, effects |-> <<>>, apiKey |-> key,
     instance |-> 0, hoveredCountryIdx |-> NoIdx, clickedCountryIdx |-> NoIdx,
     clickTimeout |-> Null, isTouchScreen |-> FALSE, isHoverable |-> TRUE,
     targetZoom |-> ZoomDefault, pointer |-> PointerOff, autoRotate |-> FALSE,
     clickedMeshVisible |-> FALSE, selectionMeshVisible |-> TRUE,
     highlightCanvas |-> NoIdx, clickCanvas |-> NoIdx, hitTestDraws |-> 0, tweens |-> {},
     timers |-> {}, staleClosures |-> {}, listeners |-> {}, tickerCallbacks |-> {},
     renderers |-> {},
     isLoaded |-> FALSE, topologyFetch |-> "pending", unhandledRejections |-> {},
     dragging |-> FALSE, mapTexture |-> "none", observers |-> {},
     visibleReported |-> {}, hiResPasses |-> <<>>, hiResTimers |-> {},
     isCameraOn |-> FALSE, cameraError |-> FALSE, cameraRuns |-> <<>>, videoSrc |-> 0,
     cameraMounted |-> TRUE,
     selectedRegion |-> "Global"]

\* the component is mounted and its fetch of the topology is pending
Mounted == \E key \in BOOLEAN : StateIs(BaseState(key))

\* the topology is loaded and the globe effect has run once
Init == \E key \in BOOLEAN : StateIs(TopologyLoaded(BaseState(key)))

Next ==
    \/ TopologyResolve
    \/ HandleClick
    \/ HandleMouseMove
    \/ HandleTouchStart
    \/ HandleWheel
    \/ DragStart
    \/ DragEnd
    \/ RotateRegion
    \/ Render
    \/ TweenComplete
    \/ Tick
    \/ TimerFire
    \/ StaleTimerFire
    \/ VisibleReport
    \/ HiResTimerFire
    \/ GuiColourChange
    \/ ToggleDeviceMotion
    \/ Unmount
    \/ CountryLookupResolve
    \/ WeatherResolve
    \/ SummaryResolve
    \/ ToggleCamera
    \/ GetUserMediaResolve
    \/ CameraUnmount

\* the whole program, from the mount of the page
Spec == Mounted /\ [][Next]_vars

\* Hovering and clicking within one run of the globe effect, in the second
\* after the first click: the frames, the pointer, the clicks, and the end of a
\* hover ring's tween.
NextHover ==
    \/ HandleClick
    \/ HandleMouseMove
    \/ HandleTouchStart
    \/ Render
    \/ HoverTweenComplete

SpecHover == Init /\ [][NextHover]_vars

\* Selecting and reverting across runs of the globe effect: the clicks, the
\* revert timers of the live and of torn-down runs, re-initialisation, unmount.
NextSelect ==
    \/ HandleClick
    \/ Tick
    \/ TimerFire
    \/ StaleTimerFire
    \/ ToggleDeviceMotion
    \/ Unmount

SpecSelect == Init /\ [][NextSelect]_vars

\* The detail panel: the selections, what ends them, and the fetches.
NextPanel ==
    \/ HandleClick
    \/ Tick
    \/ TimerFire
    \/ Unmount
    \/ CountryLookupResolve
    \/ WeatherResolve
    \/ SummaryResolve

SpecPanel == Init /\ [][NextPanel]_vars

\* SpecSelect with the browser's scheduling: time passes, and a due timer fires.
FairSelect == SpecSelect /\ WF_vars(Tick \/ TimerFire \/ StaleTimerFire)

\* From the mount on: the load of the topology, then the clicks, the frames
\* and the fetches of the selections.
NextLoad ==
    \/ TopologyResolve
    \/ HandleClick
    \/ Render
    \/ CountryLookupResolve
    \/ WeatherResolve
    \/ SummaryResolve

SpecLoad == Mounted /\ [][NextLoad]_vars

\* Auto-rotate: the clicks and their reverts, re-initialisation, and the region
\* rotations with their completions.
NextRotate ==
    \/ HandleClick
    \/ Tick
    \/ TimerFire
    \/ StaleTimerFire
    \/ ToggleDeviceMotion
    \/ RotateRegion
    \/ RotationComplete

SpecRotate == Init /\ [][NextRotate]_vars

\* dragging the globe, with the pointer moving and frames rendered
NextDrag ==
    \/ DragStart
    \/ DragEnd
    \/ HandleMouseMove
    \/ Render
    \/ TweenComplete

SpecDrag == Init /\ [][NextDrag]_vars

\* the animations of the zoom and the click ring: clicks, the wheel, and the
\* tweens' ends
NextTween ==
    \/ HandleClick
    \/ HandleWheel
    \/ TweenComplete

SpecTween == Init /\ [][NextTween]_vars

\* the textures' resolutions: the observers, their timers, the GUI, hovering,
\* and the runs of the globe effect
NextTexture ==
    \/ VisibleReport
    \/ HiResTimerFire
    \/ GuiColourChange
    \/ HandleMouseMove
    \/ Render
    \/ ToggleDeviceMotion
    \/ Unmount

SpecTexture == Init /\ [][NextTexture]_vars

\* the camera view: the button, the answers of getUserMedia, the unmount
NextCamera ==
    \/ ToggleCamera
    \/ GetUserMediaResolve
    \/ CameraUnmount

SpecCamera == Init /\ [][NextCamera]_vars

\* the click ring within one run of the globe effect: clicks and empty
\* clicks, the revert timer, and the ends of the animations
NextRing ==
    \/ HandleClick
    \/ Tick
    \/ TimerFire
    \/ TweenComplete

SpecRing == Init /\ [][NextRing]_vars

(* ------------------------------- claims ------------------------------- *)

\* the fields of the detail panel
Panel ==
    << weatherData, countryDetails, aiSummary, groundingSources,
       isLoadingWeather, isLoadingSummary >>

\* the selection whose effect run is g is the current selection
Current(g) == clickedCountry # Null /\ clickedCountry[1].gen = g

\* indices at the byte boundaries of the 24-bit colour key
WideIndices == {254, 255, 256, 65534, 65535, 65536, 16777214}

\* colours that decode to 0 or to an id greater than the number of countries
NoMatchPixels ==
    {Background, EncodeColour(NumCountries), <<0, 1, 0>>, <<1, 0, 0>>, <<255, 255, 255>>}

\* C1: the colour written for country i decodes to i, in updateMap too (as a
\* hover it makes i the hovered index, as a click the clicked index); a pixel
\* that decodes to 0 or to more than the number of countries makes updateMap
\* return false and leave the hovered and the clicked index as they were.
C1_PickingRoundTrip ==
    /\ \A i \in (0..(NumCountries - 1)) \cup WideIndices :
          PixelIndex(EncodeColour(i)) = i
    /\ \A i \in 0..(NumCountries - 1) :
          /\ UpdateMap(S, EncodeColour(i), FALSE).ret
          /\ UpdateMap(S, EncodeColour(i), FALSE).state.hoveredCountryIdx = i
          /\ UpdateMap(S, EncodeColour(i), TRUE).ret
          /\ UpdateMap(S, EncodeColour(i), TRUE).state.clickedCountryIdx = i
    /\ \A px \in NoMatchPixels, isClick \in BOOLEAN :
          /\ DecodeId(px) = 0 \/ DecodeId(px) > NumCountries
          /\ ~UpdateMap(S, px, isClick).ret
          /\ UpdateMap(S, px, isClick).state.hoveredCountryIdx = hoveredCountryIdx
          /\ UpdateMap(S, px, isClick).state.clickedCountryIdx = clickedCountryIdx

\* the last country is hovered through its colour while the first is clicked
C1_Witness ==
    /\ pointer = PointerOn(EncodeColour(NumCountries - 1))
    /\ hoveredCountryIdx = NumCountries - 1
    /\ clickedCountryIdx = 0

\* C2: a click that resolves to the index that is already clicked changes
\* nothing but the pointer: clickedCountry, the effect runs, the timers, the
\* target zoom, auto-rotate and the tweens stay as they are.
C2_ReclickIsNoOp ==
    \A p \in PointerTargets :
        (Live /\ p.hit /\ ValidIndex(PixelIndex(p.px))
              /\ PixelIndex(p.px) = clickedCountryIdx)
        => HandleClickAt(S, p) = [S EXCEPT !.pointer = p]

\* a country is clicked, the pointer is on it, and a second of its timer has passed
C2_Witness ==
    /\ Live
    /\ clickedCountryIdx = 0
    /\ pointer = PointerOn(EncodeColour(0))
    /\ \E t \in timers : t.id = clickTimeout[1] /\ t.rem = RevertDelay - 2

\* C3: clickedCountry goes from a selection to null only by a click with no
\* hit (the timers stay as they are) or by the timer that the click of that
\* very selection armed, when it is due.
C3_OnlyOwnTimerReverts ==
    [][(clickedCountry # Null /\ clickedCountry' = Null)
        => \/ timers' = timers
           \/ \E t \in timers \ timers' :
                 t.id = clickedCountry[1].gen /\ t.rem = 0]_vars

\* a step in which a response for effect run g arrives: fetchWeather of g
\* leaves the await it was at, or fetchSummary of g returns
ResultArrives(g) ==
    \/ /\ effects[g].wx \in {"name_full", "alpha", "name", "weather"}
       /\ effects'[g].wx # effects[g].wx
    \/ /\ effects[g].ai = "pending"
       /\ effects'[g].ai # "pending"

\* C4: when a lookup, weather or summary result of effect run g arrives and the
\* selection of g is not the current one, no field of the panel changes.
LateResult(g) == ~Current(g) /\ ResultArrives(g)

C4_LateResultsDropped ==
    [][\A g \in 1..Len(effects) : LateResult(g) => UNCHANGED Panel]_vars

\* the weather and the summary of the first selection are still awaited while
\* the second selection is the current one
C4_Witness ==
    /\ Len(effects) = 2
    /\ Current(2)
    /\ effects[1].wx = "weather"
    /\ effects[1].ai = "pending"
    /\ isLoadingWeather

\* the index the hit test of a frame resolves, or NoIdx
Resolved ==
    IF isHoverable /\ pointer.hit /\ ValidIndex(PixelIndex(pointer.px))
    THEN PixelIndex(pointer.px) ELSE NoIdx

\* C5: the hit test of a frame draws on the highlight canvas only when it
\* resolves a country other than the hovered one; a frame that resolves the
\* hovered index draws nothing, keeps the name and starts no tween.
C5_RedrawOnlyOnChange ==
    [][Render =>
        /\ (hitTestDraws' > 0) => (Resolved # NoIdx /\ Resolved # hoveredCountryIdx)
        /\ (Resolved = hoveredCountryIdx) =>
              /\ hitTestDraws' = 0
              /\ highlightCanvas' = highlightCanvas
              /\ countryName' = countryName
              /\ tweens' = tweens]_vars

\* a frame after the first on the same country: it is hovered, nothing was drawn
C5_Witness ==
    /\ isHoverable
    /\ pointer = PointerOn(EncodeColour(0))
    /\ hoveredCountryIdx = 0
    /\ highlightCanvas = 0
    /\ hitTestDraws = 0

\* a record of a run that has not been forgotten
Known(g) == effects[g].outcome # "settled"

C6_Requests ==
    \A g \in 1..Len(effects) :
        Known(g) =>
           /\ effects[g].weatherReqs \in {0, 1}
           /\ effects[g].wx \in {"name_full", "alpha", "name"} => effects[g].weatherReqs = 0
           /\ effects[g].weatherReqs = 0 <=> effects[g].coords = "none"
           /\ (effects[g].wx = "weather" \/ effects[g].outcome = "ok")
                 => effects[g].weatherReqs = 1
           /\ effects[g].coords \in {"none", "capitalInfo.latlng", "latlng"}

OwnTimer(t) == clickTimeout # Null /\ t.id = clickTimeout[1] /\ t.inst = instance

\* While a country is clicked in the running globe its timer is pending, armed
\* with 3 seconds at the click; its clicked index goes to none only by a click
\* with no hit or by that timer when it is due, and that revert leaves
\* clickedCountry null, the target zoom at 1 and, device motion inactive,
\* auto-rotate on.
RevertOfRunningGlobe ==
    /\ (Live' /\ clickedCountryIdx' # NoIdx) => \E t \in timers' : OwnTimer(t)'
    /\ (Live' /\ clickedCountryIdx' # NoIdx /\ clickedCountryIdx' # clickedCountryIdx)
          => \E t \in timers' : OwnTimer(t)' /\ t.rem = RevertDelay
    /\ (Live /\ instance' = instance /\ clickedCountryIdx # NoIdx
             /\ clickedCountryIdx' = NoIdx)
          => /\ \/ timers' = timers
                \/ \E t \in timers \ timers' : OwnTimer(t) /\ t.rem = 0
             /\ clickedCountry' = Null
             /\ targetZoom' = ZoomDefault
             /\ ~isDeviceMotionActive => autoRotate'

\* The selection shown in the panel ends only by a click with no hit or by the
\* timer armed at its click, 3 seconds after it.
EndOfSelection ==
    (clickedCountry # Null /\ clickedCountry' = Null)
    => \/ timers' = timers
       \/ \E t \in timers \ timers' :
             t.id = clickedCountry[1].gen /\ t.inst = instance /\ t.rem = 0

\* Time passing and due timers firing, a clicked index of the running globe and
\* a selection in the panel are each eventually followed by none.
EventuallyReverted ==
    /\ (Live /\ clickedCountryIdx # NoIdx) ~> (~Live \/ clickedCountryIdx = NoIdx)
    /\ (componentMounted /\ clickedCountry # Null)
          ~> (~componentMounted \/ clickedCountry = Null)

\* C7: every clicked state is eventually reverted; the selection is ended by a
\* click with no hit or by the timer 3 seconds after its click, and the revert
\* sets the clicked index to none, clickedCountry to null, the target zoom to 1
\* and, device motion inactive, auto-rotate on.
C7_ClickedEventuallyReverted ==
    /\ [][RevertOfRunningGlobe /\ EndOfSelection]_vars
    /\ EventuallyReverted

\* what holds of C7 with the selection of the panel left aside
RevertHoldsOfRunningGlobe ==
    /\ [][RevertOfRunningGlobe]_vars
    /\ EventuallyReverted

\* C8 as stated: once the fetches of the current selection have returned, what
\* was obtained is shown: the country metadata when the lookup succeeded, also
\* when the weather request failed.
C8_MetadataShownWithoutWeather ==
    \A g \in 1..Len(effects) :
        (Current(g) /\ effects[g].isMounted /\ effects[g].wx = "done"
                    /\ effects[g].coords # "none")
        => countryDetails = g

\* C9 as stated: no listener, ticker callback or renderer of a torn-down run
\* of the globe effect remains.
C9_TeardownRemovesAll ==
    /\ \A l \in listeners : l.inst = instance
    /\ tickerCallbacks \subseteq {instance}
    /\ renderers \subseteq {instance}

\* C10: after a failure for the current selection the loading flag is off and
\* the data is absent (weatherData and countryDetails null, the fixed text as
\* aiSummary); a fetch that has returned issues no further request.
C10_State ==
    \A g \in 1..Len(effects) :
        (effects[g].isMounted /\ Current(g)) =>
            /\ (effects[g].wx = "done" /\ effects[g].outcome = "error")
                  => ~isLoadingWeather /\ weatherData = 0 /\ countryDetails = 0
            /\ effects[g].ai = "error"
                  => /\ ~isLoadingSummary
                     /\ aiSummary = [text |-> "Failed to load summary.", of |-> g]
                     /\ groundingSources = 0

C10_FailedFetchIsTerminal ==
    [][/\ C10_State'
       /\ \A g \in 1..Len(effects) :
             /\ effects[g].wx = "done"
                   => /\ effects'[g].wx = "done"
                      /\ effects'[g].weatherReqs <= effects[g].weatherReqs
             /\ effects[g].ai \in {"error", "ok", "nokey", "settled"}
                   => effects'[g].ai # "pending"]_vars

\* the lookup and the summary of the current selection have failed
C10_Witness ==
    /\ Current(1)
    /\ effects[1].wx = "done"
    /\ effects[1].outcome = "error"
    /\ effects[1].ai = "error"
    /\ ~isLoadingWeather
    /\ ~isLoadingSummary


\* C11: no promise of a fetch is rejected without a handler, and once the
\* fetch of the topology has settled the frames of the mounted component are
\* rendered: whatever a fetch comes to, render stays on the ticker.
C11_FetchFailuresCaught ==
    /\ unhandledRejections = {}
    /\ (componentMounted /\ topologyFetch = "done") => instance \in tickerCallbacks


\* C12: while device motion is active auto-rotate is off, and a call of
\* rotateToRegion in that mode changes nothing.
C12_DeviceMotionExcludesAutoRotate ==
    /\ (Live /\ isDeviceMotionActive) => ~autoRotate
    /\ (Live /\ isDeviceMotionActive)
          => \A region \in Regions : RotateToRegion(S, region) = S

\* device motion is active, a country is clicked, and a region button has been
\* clicked in that mode: no rotation was started
C12_Witness ==
    /\ Live
    /\ isDeviceMotionActive
    /\ clickedCountryIdx # NoIdx
    /\ selectedRegion = "Europe"
    /\ \A t \in tweens : t.target # "globeGroup.rotation"


\* a step in which a drag starts
DragStarts == ~dragging /\ dragging'

\* the shrink animation of the running globe is in flight
Shrinking(tw) ==
    \E t \in tw : t.inst = instance /\ t.target = "globeGroup.scale" /\ t.to = 90

\* C13 as stated: on drag start hover hit-testing is disabled, the globe
\* starts shrinking, and auto-rotate is disabled.
C13_DragStartDisablesAutoRotate ==
    [][DragStarts => (~isHoverable' /\ Shrinking(tweens') /\ ~autoRotate')]_vars

\* C13: on drag start the controller enters the dragging state: hover
\* hit-testing is disabled, the pointer is put off the globe and the globe
\* starts shrinking; the auto-rotate flag is left as it was (the controls
\* themselves suspend the rotation while a drag lasts).
C13_DragStartDisablesHover ==
    [][DragStarts => /\ ~isHoverable'
                     /\ pointer' = PointerOff
                     /\ Shrinking(tweens')
                     /\ autoRotate' = autoRotate]_vars

C13_Witness ==
    /\ Live /\ dragging /\ ~isHoverable /\ autoRotate
    /\ pointer = PointerOff
    /\ Shrinking(tweens)


\* C14: hover hit-testing stays disabled for the whole duration of a drag:
\* while a drag is in progress hover is never enabled and the per-frame hit
\* test never changes the hovered index, also when the drag started while
\* the restore animation of the previous drag was still running.
C14_NoHoverWhileDragging ==
    [][(dragging /\ dragging') =>
          (~isHoverable' /\ hoveredCountryIdx' = hoveredCountryIdx)]_vars


\* C16: overlapping animations on one target are cancelled before a new one
\* starts, so two tweens of the running globe never animate the same property
\* of the same target at the same time.
C16_OneTweenPerTarget ==
    \A t1, t2 \in tweens :
        (t1.inst = instance /\ t2.inst = instance /\ t1.target = t2.target) => t1 = t2


\* C15: while a country is clicked in the running globe and device motion is
\* inactive, auto-rotate is disabled: the click disables it and nothing
\* re-enables it before the revert, the completion of a region rotation
\* included.
C15_ClickedExcludesAutoRotate ==
    (Live /\ ~isDeviceMotionActive /\ clickedCountryIdx # NoIdx) => ~autoRotate

\* a country is clicked after a region rotation has been asked for, and no
\* rotation is in flight any more
C15_Witness ==
    /\ Live /\ ~isDeviceMotionActive /\ clickedCountryIdx # NoIdx
    /\ ~autoRotate
    /\ selectedRegion = "Europe"
    /\ \A t \in tweens : t.target # "globeGroup.rotation"


\* the passes the observers started: one per run at most, each after the
\* run's visible report, which disconnected the observer
PassesOnceAfterVisible ==
    /\ \A i \in 1..Len(hiResPasses) : hiResPasses[i] \in visibleReported
    /\ \A i, j \in 1..Len(hiResPasses) : hiResPasses[i] = hiResPasses[j] => i = j
    /\ \A k \in hiResTimers :
          /\ k \in visibleReported
          /\ \A i \in 1..Len(hiResPasses) : hiResPasses[i] # k
    /\ observers \cap visibleReported = {}

\* a run of the globe effect starts with the low-resolution textures, and the
\* high-resolution textures only ever replace drawn ones
LowBeforeHi ==
    /\ (instance' # instance /\ instance' > 0) => mapTexture' = "low"
    /\ (mapTexture' = "hi") => mapTexture \in {"low", "hi"}
    /\ (Len(hiResPasses') > Len(hiResPasses)) =>
          hiResPasses'[Len(hiResPasses')] \in visibleReported

\* C17: the low-resolution map and stroke textures are drawn during
\* initialisation, before any high-resolution pass; the pass an observer
\* starts runs at most once per run of the globe effect and only after that
\* run's container was reported visible, the observer being disconnected at
\* the first visible report.
C17_HiResOnceAfterVisible ==
    []PassesOnceAfterVisible /\ [][LowBeforeHi]_vars

\* both runs of the globe effect have had their high-resolution pass, the
\* second one while it was running
C17_Witness ==
    /\ Live /\ instance = 2 /\ mapTexture = "hi"
    /\ hiResPasses = <<1, 2>>
    /\ observers = {} /\ hiResTimers = {}

\* C18: the panel and the controller agree: clickedCountry is non-null
\* exactly when the running globe has a clicked index, and then names that
\* index, also after the globe effect has run again.
C18_PanelAgreesWithController ==
    Live =>
        /\ (clickedCountry # Null) <=> (clickedCountryIdx # NoIdx)
        /\ clickedCountryIdx # NoIdx =>
              /\ clickedCountry[1].name = OrEmpty(svgPaths[clickedCountryIdx].name)
              /\ clickedCountry[1].id = OrEmpty(svgPaths[clickedCountryIdx].id)


\* the getUserMedia requests that are pending
PendingRequests == {r \in 1..Len(cameraRuns) : cameraRuns[r].request = "pending"}

\* the streams that were acquired and whose tracks are running
RunningStreams == {r \in 1..Len(cameraRuns) : cameraRuns[r].stream = "running"}

\* C19: no camera stream is leaked: whenever the camera is switched off (or
\* the view is unmounted) and no getUserMedia request is pending, no acquired
\* stream has running tracks.
C19_NoStreamLeak ==
    ((~isCameraOn \/ ~cameraMounted) /\ PendingRequests = {}) => RunningStreams = {}


\* a step of the running globe that hides the click ring
RingHidden == instance' = instance /\ clickedMeshVisible /\ ~clickedMeshVisible'

\* a revert animation of the running globe is in flight
RevertAnimations(tw) ==
    {t \in tw : t.inst = instance /\ t.target = "globeClickedMesh.scale"
                                  /\ t.onComplete = "hideClickedMesh"}

\* C20: whenever a country is clicked the click ring is visible, and the ring
\* is hidden only when a revert animation completes while no country is
\* clicked.
C20_ClickedRingVisible ==
    /\ []((Live /\ clickedCountryIdx # NoIdx) => clickedMeshVisible)
    /\ [][RingHidden => /\ clickedCountryIdx = NoIdx
                        /\ clickedCountryIdx' = NoIdx
                        /\ RevertAnimations(tweens') # RevertAnimations(tweens)]_vars

\* a second selection whose ring is visible while the camera's revert
\* animation of the first selection is still in flight
C20_Witness ==
    /\ Live /\ clickedCountryIdx # NoIdx /\ clickedMeshVisible
    /\ selGen = 2
    /\ \E t \in tweens : t.inst = instance /\ t.target = "camera.zoom" /\ t.to = ZoomDefault
    /\ RevertAnimations(tweens) = {}

====
